---------------------------- MODULE Spec2Model ----------------------------
(***************************************************************************)
(* Model of the platform API service (services/api/app): the environment   *)
(* plumbing, the two dependency probes and the /health aggregation, the    *)
(* static / and /version endpoints, and the user create/list handlers with *)
(* their per-request database session.                                     *)
(***************************************************************************)
EXTENDS Integers, Sequences, FiniteSets, TLC

(***************************************************************************)
(* Bounds of the model.                                                    *)
(***************************************************************************)
\* largest value the clock reaches
MaxClock == 1
\* number of changes made to the process environment after startup
MaxEnvChanges == 1
\* number of rows the store's id sequence hands out
MaxUsers == 2

(***************************************************************************)
(* Program constants.                                                      *)
(***************************************************************************)
\* database.py:6, the port written into DATABASE_URL
POSTGRES_PORT == 5432
\* main.py:86, the port handed to redis.Redis
REDIS_PORT == 6379

\* os.getenv of a variable that is not set
None == "<None>"

\* the two request slots served concurrently by the framework's thread pool
Slots == {"r1", "r2"}

(***************************************************************************)
(* The process environment.                                                *)
(***************************************************************************)
EnvVars ==
    {"APP_NAME", "APP_ENV", "BUILD_SHA", "REDIS_HOST",
     "POSTGRES_HOST", "POSTGRES_DB", "POSTGRES_USER", "POSTGRES_PASSWORD",
     "DB_HOST", "DB_NAME", "DB_USER", "DB_PASSWORD"}

\* the values a deployment gives each variable (besides leaving it unset)
EnvValues(v) ==
    CASE v \in {"POSTGRES_HOST", "DB_HOST"} -> {"pg1", "pg2"}
      [] v = "REDIS_HOST" -> {"redis1"}
      [] v = "APP_NAME" -> {"shop"}
      [] v = "APP_ENV" -> {"development"}
      [] v = "BUILD_SHA" -> {"abc123"}
      [] v \in {"POSTGRES_DB", "DB_NAME"} -> {"appdb"}
      [] v \in {"POSTGRES_USER", "DB_USER"} -> {"app"}
      [] OTHER -> {"secret"}

Unset == [v \in EnvVars |-> None]

\* a deployment that sets both naming schemes to the same store
EnvBoth ==
    [v \in EnvVars |->
        CASE v \in {"POSTGRES_HOST", "DB_HOST"} -> "pg1"
          [] OTHER -> CHOOSE x \in EnvValues(v) : TRUE]

\* a deployment that sets only the POSTGRES_* scheme
EnvPostgresOnly ==
    [v \in EnvVars |->
        IF v \in {"DB_HOST", "DB_NAME", "DB_USER", "DB_PASSWORD"} THEN None ELSE EnvBoth[v]]

\* a deployment that sets only the DB_* scheme
EnvDbOnly ==
    [v \in EnvVars |->
        IF v \in {"POSTGRES_HOST", "POSTGRES_DB", "POSTGRES_USER", "POSTGRES_PASSWORD"}
        THEN None ELSE EnvBoth[v]]

\* a deployment whose two schemes name different hosts
EnvSplit == [EnvBoth EXCEPT !["POSTGRES_HOST"] = "pg2"]

InitEnvs == {Unset, EnvBoth, EnvPostgresOnly, EnvDbOnly, EnvSplit}

\* the hosts that may accept connections; the name "None" resolves nowhere
Addresses == {"pg1", "pg2", "redis1", "localhost"}

VARIABLES
    environ,        \* os.environ of the running process
    environ0,       \* (history) os.environ when the process started
    envChanges,     \* (history) number of changes to environ since startup
    DATABASE_URL,   \* app.database.DATABASE_URL, built at import
    up,             \* the addresses that accept connections now
    now,            \* the UTC clock
    resp,           \* the last response of /, /health or /version
    req,            \* the create/list request in each slot
    sessions,       \* the slots whose session is checked out and not closed
    table,          \* the committed rows of the users table, in store order
    seq,            \* the store's id sequence (last value handed out)
    acked,          \* (history) records returned by successful creates
    returned,       \* (history) records returned by any successful response
    rejectedIds     \* (history) ids of rows whose write the store rejected

vars ==
    <<environ, environ0, envChanges, DATABASE_URL, up, now, resp,
      req, sessions, table, seq, acked, returned, rejectedIds>>

configVars == <<environ, environ0, envChanges, DATABASE_URL>>
userVars == <<req, sessions, table, seq, acked, returned, rejectedIds>>

(***************************************************************************)
(* Config resolution.                                                      *)
(***************************************************************************)
\* os.getenv(name)
getenv(name) == environ[name]

\* os.getenv(name, default)
getenv_default(name, default) ==
    IF environ[name] = None THEN default ELSE environ[name]

\* an f-string field: a value that is not set is written as the text "None"
Format(v) == IF v = None THEN "None" ELSE v

\* database.py:6, evaluated once when app.database is imported
MakeDatabaseUrl(env) ==
    [user |-> Format(env["DB_USER"]),
     password |-> Format(env["DB_PASSWORD"]),
     host |-> Format(env["DB_HOST"]),
     port |-> POSTGRES_PORT,
     database |-> Format(env["DB_NAME"])]

\* the store that the session factory's engine is bound to accepts connections
CrudStoreUp == DATABASE_URL.host \in up

(***************************************************************************)
(* Health probes.                                                          *)
(***************************************************************************)
\* the keyword arguments of psycopg2.connect in check_database
ProbeParams ==
    [host |-> getenv("POSTGRES_HOST"),
     database |-> getenv("POSTGRES_DB"),
     user |-> getenv("POSTGRES_USER"),
     password |-> getenv("POSTGRES_PASSWORD")]

\* the keyword arguments of redis.Redis in check_redis
RedisParams == [host |-> getenv("REDIS_HOST"), port |-> REDIS_PORT]

\* a client given no host connects to the local default
ClientAddress(host) == IF host = None THEN "localhost" ELSE host

\* what psycopg2.connect can do against an address
ConnectOutcomes(addr) ==
    IF addr \in up
    THEN {"connected", "timeout", "auth_failed"}
    ELSE {"refused", "timeout"}

\* what Redis.ping can do against an address
PingOutcomes(addr) ==
    IF addr \in up THEN {"pong", "timeout"} ELSE {"refused", "timeout"}

\* a faulty variant of check_database: the failure propagates
check_database_raises(outcome) ==
    IF outcome = "connected" THEN "ok" ELSE "raised"

\* check_database: try connect, close, "ok"; except Exception: "error"
check_database(outcome) ==
    IF outcome = "connected" THEN "ok" ELSE "error"

\* check_redis: try ping, "ok"; except Exception: "error"
check_redis(outcome) ==
    IF outcome = "pong" THEN "ok" ELSE "error"

\* a faulty variant of overall_status: one healthy dependency is enough
overall_status_any(db_status, redis_status) ==
    IF db_status = "ok" \/ redis_status = "ok" THEN "ok" ELSE "degraded"

\* main.py:101
overall_status(db_status, redis_status) ==
    IF db_status = "ok" /\ redis_status = "ok" THEN "ok" ELSE "degraded"

\* datetime.now(timezone.utc).isoformat(): the instant with its UTC offset
isoformat_utc(t) == [instant |-> t, offset |-> "+00:00"]

\* a faulty variant of health_payload: the payload carries no timestamp
health_payload_bare(db_status, redis_status, t) ==
    [status |-> overall_status(db_status, redis_status),
     database |-> db_status,
     redis |-> redis_status]

\* main.py:108-113, the dict that health returns
health_payload(db_status, redis_status, t) ==
    [status |-> overall_status(db_status, redis_status),
     database |-> db_status,
     redis |-> redis_status,
     timestamp |-> isoformat_utc(t)]

\* the framework's answer to a handler that raised
ServerError == [code |-> 500, body |-> [detail |-> "Internal Server Error"]]

\* health(): both probes in turn, then the payload; a probe that raised ends
\* the handler at that line
health(dbOutcome, redisOutcome, t) ==
    LET db_status == check_database(dbOutcome)
        redis_status == check_redis(redisOutcome)
    IN  IF db_status = "raised"
        THEN ServerError @@ [probes |-> <<"database">>]
        ELSE IF redis_status = "raised"
        THEN ServerError @@ [probes |-> <<"database", "redis">>]
        ELSE [code |-> 200,
              body |-> health_payload(db_status, redis_status, t),
              probes |-> <<"database", "redis">>]

NoResp == [endpoint |-> "none"]

\* GET /health
Health ==
    \E dbOutcome \in ConnectOutcomes(ClientAddress(ProbeParams.host)),
       redisOutcome \in PingOutcomes(ClientAddress(RedisParams.host)) :
        /\ resp' = health(dbOutcome, redisOutcome, now) @@
                   [endpoint |-> "/health",
                    at |-> now,
                    probeParams |-> ProbeParams,
                    redisParams |-> RedisParams,
                    crudStoreUp |-> CrudStoreUp]
        /\ UNCHANGED <<configVars, up, now, userVars>>

\* main.py:60-64
root ==
    [app_name |-> getenv_default("APP_NAME", "platform"),
     environment |-> getenv("APP_ENV"),
     status |-> "running"]

\* GET /
Root ==
    /\ resp' = [endpoint |-> "/", code |-> 200, body |-> root]
    /\ UNCHANGED <<configVars, up, now, userVars>>

\* main.py:150-154
version ==
    [version |-> "1.1.0",
     commit |-> getenv_default("BUILD_SHA", "dev"),
     environment |-> getenv_default("APP_ENV", "unknown")]

\* GET /version
Version ==
    /\ resp' = [endpoint |-> "/version", code |-> 200, body |-> version]
    /\ UNCHANGED <<configVars, up, now, userVars>>

(***************************************************************************)
(* The surroundings: the environment, the network, the clock.              *)
(***************************************************************************)
\* a variable of the process environment is set, changed or removed
SetEnv ==
    /\ envChanges < MaxEnvChanges
    /\ \E v \in EnvVars :
        \E x \in EnvValues(v) \cup {None} :
            /\ x # environ[v]
            /\ environ' = [environ EXCEPT ![v] = x]
    /\ envChanges' = envChanges + 1
    /\ UNCHANGED <<environ0, DATABASE_URL, up, now, resp, userVars>>

\* an address starts or stops accepting connections
SetReachable(addrs) ==
    /\ \E a \in addrs : up' = IF a \in up THEN up \ {a} ELSE up \cup {a}
    /\ UNCHANGED <<configVars, now, resp, userVars>>

\* time passes
Tick ==
    /\ now < MaxClock
    /\ now' = now + 1
    /\ UNCHANGED <<configVars, up, resp, userVars>>

(***************************************************************************)
(* User names and the text encoding between the service and the store.     *)
(***************************************************************************)
\* names are sequences of code points
EmptyName == <<>>
\* "Jo" a-tilde "o", the name the test suite creates
Joao == <<74, 111, 227, 111>>
Names == {EmptyName, Joao}

\* a request that carries no name parameter
Missing == <<-1>>

\* the UTF-8 bytes of one code point
encode_cp(cp) ==
    IF cp < 128 THEN <<cp>>
    ELSE IF cp < 2048 THEN <<192 + (cp \div 64), 128 + (cp % 64)>>
    ELSE <<224 + (cp \div 4096), 128 + ((cp \div 64) % 64), 128 + (cp % 64)>>

RECURSIVE encode(_)
\* the text of a name as the driver sends it to the store
encode(s) == IF s = <<>> THEN <<>> ELSE encode_cp(Head(s)) \o encode(Tail(s))

RECURSIVE decode_latin1(_)
\* a faulty variant of decode: every byte is taken for a character
decode_latin1(b) == IF b = <<>> THEN <<>> ELSE <<Head(b)>> \o decode_latin1(Tail(b))

RECURSIVE decode(_)
\* the text of a stored name as the driver hands it back
decode(b) ==
    IF b = <<>> THEN <<>>
    ELSE IF b[1] < 128 THEN <<b[1]>> \o decode(SubSeq(b, 2, Len(b)))
    ELSE IF b[1] < 224
    THEN <<(b[1] - 192) * 64 + (b[2] - 128)>> \o decode(SubSeq(b, 3, Len(b)))
    ELSE <<(b[1] - 224) * 4096 + (b[2] - 128) * 64 + (b[3] - 128)>>
         \o decode(SubSeq(b, 4, Len(b)))

(***************************************************************************)
(* Requests, sessions and the users table.                                 *)
(***************************************************************************)
\* the id of a User object that the store has not given one (Python's None)
NullId == 0

NoRow == [id |-> NullId]

Idle ==
    [kind |-> "none", pc |-> "idle", name |-> Missing,
     tx |-> NoRow, rowid |-> NullId, status |-> 0, body |-> <<>>,
     fail |-> "none", attempts |-> 0, snap |-> {}, view |-> <<>>]

Range(f) == {f[i] : i \in DOMAIN f}

\* the {id, name} dict both handlers build from a User object
user_dict(row) == [id |-> row.id, name |-> decode(row.name)]

\* the uncommitted rows of the sessions in a set of slots
Uncommitted(S) == {req[t].tx : t \in {u \in S : req[u].tx # NoRow}}

RECURSIVE SeqOf(_)
\* the elements of a set, one after the other
SeqOf(S) == IF S = {} THEN <<>> ELSE LET x == CHOOSE x \in S : TRUE IN <<x>> \o SeqOf(S \ {x})

\* a faulty variant of Visible: one session object serves every request
VisibleShared(s) == table \o SeqOf(Uncommitted(Slots))

\* what a SELECT through the session of slot s sees: the committed rows and
\* the rows its own transaction wrote
Visible(s) == table \o SeqOf(Uncommitted({s}))

\* the id the store gives the next inserted row: the primary key of users
\* is an auto-incremented integer
NextId == seq + 1

\* creates that have not yet drawn an id
Drawing == {t \in Slots : req[t].kind = "create" /\ req[t].pc = "handler"}

\* get_db up to its yield: db = SessionLocal(), a session of the request's own
get_db(s) == sessions' = sessions \cup {s}

\* POST /users arrives and its dependency get_db yields a session
StartCreate(s) ==
    /\ req[s].pc = "idle"
    /\ seq + Cardinality(Drawing) < MaxUsers
    /\ \E name \in Names \cup {Missing} :
        req' = [req EXCEPT ![s] = [Idle EXCEPT !.kind = "create", !.pc = "handler", !.name = name]]
    /\ get_db(s)
    /\ UNCHANGED <<configVars, up, now, resp, table, seq, acked, returned, rejectedIds>>

\* GET /users arrives and its dependency get_db yields a session
StartList(s) ==
    /\ req[s].pc = "idle"
    /\ req' = [req EXCEPT ![s] = [Idle EXCEPT !.kind = "list", !.pc = "handler"]]
    /\ get_db(s)
    /\ UNCHANGED <<configVars, up, now, resp, table, seq, acked, returned, rejectedIds>>

\* a faulty variant of Validate: an empty name is refused like a missing one
ValidateNonEmpty(name) == name # Missing /\ name # EmptyName

\* name: str, a required parameter of any text
Validate(name) == name # Missing

\* the request does not fit create_user's signature
RejectRequest(s) ==
    /\ req[s].kind = "create" /\ req[s].pc = "handler"
    /\ ~Validate(req[s].name)
    /\ req' = [req EXCEPT ![s].status = 422, ![s].body = [detail |-> "missing"],
                          ![s].pc = "close"]
    /\ UNCHANGED <<configVars, up, now, resp, sessions, table, seq, acked, returned, rejectedIds>>

\* a faulty variant of Insert: the session commits each statement as it is sent
InsertAutocommit(s) ==
    /\ req[s].kind = "create" /\ req[s].pc = "handler"
    /\ Validate(req[s].name)
    /\ IF CrudStoreUp
       THEN /\ seq' = NextId
            /\ table' = Append(table, [id |-> NextId, name |-> encode(req[s].name)])
            /\ req' = [req EXCEPT ![s].attempts = @ + 1,
                                  ![s].tx = [id |-> NextId, name |-> encode(req[s].name)],
                                  ![s].rowid = NextId,
                                  ![s].pc = "commit"]
       ELSE /\ req' = [req EXCEPT ![s].attempts = @ + 1, ![s].fail = "insert",
                                  ![s].status = 500, ![s].body = ServerError.body,
                                  ![s].pc = "close"]
            /\ UNCHANGED <<seq, table>>
    /\ UNCHANGED <<configVars, up, now, resp, sessions, acked, returned, rejectedIds>>

\* create_user: User(name=name), db.add(user), and the INSERT that db.commit()
\* flushes inside the session's transaction
Insert(s) ==
    /\ req[s].kind = "create" /\ req[s].pc = "handler"
    /\ Validate(req[s].name)
    /\ IF CrudStoreUp
       THEN /\ seq' = NextId
            /\ req' = [req EXCEPT ![s].attempts = @ + 1,
                                  ![s].tx = [id |-> NextId, name |-> encode(req[s].name)],
                                  ![s].rowid = NextId,
                                  ![s].pc = "commit"]
       ELSE /\ req' = [req EXCEPT ![s].attempts = @ + 1, ![s].fail = "insert",
                                  ![s].status = 500, ![s].body = ServerError.body,
                                  ![s].pc = "close"]
            /\ seq' = seq
    /\ UNCHANGED <<configVars, up, now, resp, sessions, table, acked, returned, rejectedIds>>

\* a faulty variant of Commit: the transaction is never committed
CommitSkipped(s) ==
    /\ req[s].kind = "create" /\ req[s].pc = "commit"
    /\ req' = [req EXCEPT ![s].pc = "refresh"]
    /\ UNCHANGED <<configVars, up, now, resp, sessions, table, seq, acked, returned, rejectedIds>>

\* create_user: the COMMIT of db.commit(); a failure propagates out of the handler
Commit(s) ==
    /\ req[s].kind = "create" /\ req[s].pc = "commit"
    /\ IF CrudStoreUp
       THEN /\ table' = Append(table, req[s].tx)
            /\ req' = [req EXCEPT ![s].tx = NoRow, ![s].pc = "refresh"]
            /\ UNCHANGED rejectedIds
       ELSE /\ req' = [req EXCEPT ![s].fail = "commit", ![s].status = 500,
                                  ![s].body = ServerError.body, ![s].pc = "close"]
            /\ rejectedIds' = rejectedIds \cup {req[s].rowid}
            /\ UNCHANGED table
    /\ UNCHANGED <<configVars, up, now, resp, sessions, seq, acked, returned>>

\* create_user: db.refresh(user) and the returned dict
Refresh(s) ==
    /\ req[s].kind = "create" /\ req[s].pc = "refresh"
    /\ LET found == {r \in Range(Visible(s)) : r.id = req[s].rowid}
       IN  IF CrudStoreUp /\ found # {}
           THEN LET user == CHOOSE r \in found : TRUE
                IN  /\ req' = [req EXCEPT ![s].status = 200, ![s].body = user_dict(user),
                                          ![s].pc = "close"]
                    /\ acked' = acked \cup {user_dict(user)}
                    /\ returned' = returned \cup {user_dict(user)}
           ELSE /\ req' = [req EXCEPT ![s].fail = "refresh", ![s].status = 500,
                                      ![s].body = ServerError.body, ![s].pc = "close"]
                /\ UNCHANGED <<acked, returned>>
    /\ UNCHANGED <<configVars, up, now, resp, sessions, table, seq, rejectedIds>>

\* a faulty variant of list_users_body: the first row is left out
list_users_body_skip(users) ==
    [i \in 1..(Len(users) - 1) |-> user_dict(users[i + 1])]

\* main.py:136-142, the list that list_users returns
list_users_body(users) == [i \in 1..Len(users) |-> user_dict(users[i])]

\* list_users: db.query(User).all() and the returned list
Query(s) ==
    /\ req[s].kind = "list" /\ req[s].pc = "handler"
    /\ IF CrudStoreUp
       THEN LET users == Visible(s)
            IN  /\ req' = [req EXCEPT ![s].status = 200, ![s].body = list_users_body(users),
                                      ![s].view = table, ![s].snap = acked,
                                      ![s].pc = "close"]
                /\ returned' = returned \cup Range(list_users_body(users))
       ELSE /\ req' = [req EXCEPT ![s].fail = "query", ![s].status = 500,
                                  ![s].body = ServerError.body, ![s].pc = "close"]
            /\ UNCHANGED returned
    /\ UNCHANGED <<configVars, up, now, resp, sessions, table, seq, acked, rejectedIds>>

\* a faulty variant of Close: the session is closed only after a handler that returned
CloseOnSuccess(s) ==
    /\ req[s].pc = "close"
    /\ req' = [req EXCEPT ![s] = Idle]
    /\ sessions' = IF req[s].status = 200 THEN sessions \ {s} ELSE sessions
    /\ UNCHANGED <<configVars, up, now, resp, table, seq, acked, returned, rejectedIds>>

\* get_db after its yield: finally db.close(), which rolls back what the
\* session left uncommitted; the response has gone out and the slot is free
Close(s) ==
    /\ req[s].pc = "close"
    /\ req' = [req EXCEPT ![s] = Idle]
    /\ sessions' = sessions \ {s}
    /\ UNCHANGED <<configVars, up, now, resp, table, seq, acked, returned, rejectedIds>>

(***************************************************************************)
(* Specifications.                                                         *)
(***************************************************************************)
\* the state once app.main is imported, for a startup environment env
Startup(env) ==
    /\ environ = env
    /\ environ0 = env
    /\ envChanges = 0
    /\ DATABASE_URL = MakeDatabaseUrl(env)
    /\ now = 0
    /\ resp = NoResp
    /\ req = [s \in Slots |-> Idle]
    /\ sessions = {}
    /\ table = <<>>
    /\ seq = 0
    /\ acked = {}
    /\ returned = {}
    /\ rejectedIds = {}

\* the service started in a deployment that sets both naming schemes alike
Init ==
    /\ Startup(EnvBoth)
    /\ up = {"pg1", "redis1"}

\* the user requests, with health checks, while the store comes and goes
Next ==
    \/ \E s \in Slots : StartCreate(s)
    \/ \E s \in Slots : StartList(s)
    \/ \E s \in Slots : RejectRequest(s)
    \/ \E s \in Slots : Insert(s)
    \/ \E s \in Slots : Commit(s)
    \/ \E s \in Slots : Refresh(s)
    \/ \E s \in Slots : Query(s)
    \/ \E s \in Slots : Close(s)
    \/ Health
    \/ SetReachable({DATABASE_URL.host} \cap Addresses)

Spec == Init /\ [][Next]_vars

\* the service started in any of the deployments
InitHealth ==
    /\ \E env \in InitEnvs : Startup(env)
    /\ up \in SUBSET Addresses

\* the probes and the static endpoints, while the environment, the network
\* and the clock change
NextHealth ==
    \/ Health
    \/ Root
    \/ Version
    \/ SetEnv
    \/ SetReachable(Addresses)
    \/ Tick

SpecHealth == InitHealth /\ [][NextHealth]_vars

(***************************************************************************)
(* Properties.                                                             *)
(***************************************************************************)
\* the last response is a /health response
IsHealth == resp.endpoint = "/health"

\* slot s holds a request of the kind whose handler has ended: its response
\* is formed and its session is about to be closed
Responded(s, kind) == req[s].kind = kind /\ req[s].pc = "close"

\* the rows of the table as the handlers report them
TableRecords == {user_dict(table[i]) : i \in DOMAIN table}

\* C1: the overall status of a /health response is "ok" exactly when the
\* database and the cache sub-status are both "ok", and "degraded" otherwise
C1_OverallIsAnd ==
    IsHealth /\ resp.code = 200 =>
        /\ resp.body.status \in {"ok", "degraded"}
        /\ resp.body.status = "ok" <=>
               (resp.body.database = "ok" /\ resp.body.redis = "ok")

\* a /health response with one healthy and one failed dependency
C1_Witness ==
    /\ IsHealth /\ resp.code = 200
    /\ resp.body.database = "ok" /\ resp.body.redis = "error"
    /\ resp.body.status = "degraded"

\* C2: a /health request always ends in a 200 response: each probe turns its
\* failure into "error", returns only "ok" or "error", and both probes run
C2_HealthNeverFails ==
    IsHealth =>
        /\ resp.code = 200
        /\ resp.body.database \in {"ok", "error"}
        /\ resp.body.redis \in {"ok", "error"}
        /\ resp.probes = <<"database", "redis">>

\* a /health response whose database probe failed and whose cache probe ran
\* after it and succeeded
C2_Witness ==
    /\ IsHealth /\ resp.code = 200
    /\ resp.body.database = "error" /\ resp.body.redis = "ok"
    /\ resp.probes = <<"database", "redis">>

\* C3: when the store behind the users table does not accept connections at
\* a /health request, the response reports database "error" and status
\* "degraded"
C3_ProbeSeesCrudStore ==
    IsHealth /\ ~resp.crudStoreUp =>
        /\ resp.code = 200
        /\ resp.body.database = "error"
        /\ resp.body.status = "degraded"

\* C4 as stated: the payload of a /health response has exactly the fields
\* status, database, cache and timestamp
C4_FieldsWithCache ==
    IsHealth /\ resp.code = 200 =>
        DOMAIN resp.body = {"status", "database", "cache", "timestamp"}

\* C4 as amended: the payload of a /health response has exactly the fields
\* status, database, redis and timestamp; status is ok or degraded, database
\* and redis are ok or error, and timestamp is the UTC instant of the request
C4_Fields ==
    IsHealth /\ resp.code = 200 =>
        /\ DOMAIN resp.body = {"status", "database", "redis", "timestamp"}
        /\ resp.body.status \in {"ok", "degraded"}
        /\ resp.body.database \in {"ok", "error"}
        /\ resp.body.redis \in {"ok", "error"}
        /\ resp.body.timestamp.instant = resp.at
        /\ resp.body.timestamp.offset = "+00:00"

\* a /health response given after the clock has advanced
C4_Witness ==
    /\ IsHealth /\ resp.code = 200
    /\ resp.at = 1 /\ resp.body.timestamp.instant = 1

\* C5: a list returns every record that a create returned before the list
\* read the table (so every one returned before the list began); returned ids are never null and never shared by two records; and a
\* record once returned stays in the table with its id and name
C5_CreatedStayListed ==
    /\ \A s \in Slots :
        Responded(s, "list") /\ req[s].status = 200 =>
            /\ req[s].snap \subseteq Range(req[s].body)
            /\ \A i, j \in DOMAIN req[s].body :
                   i # j => req[s].body[i].id # req[s].body[j].id
    /\ \A r \in returned : r.id # NullId /\ r \in TableRecords
    /\ \A r1, r2 \in returned : r1.id = r2.id => r1 = r2

\* a list that returns the records of two creates that succeeded before it,
\* after a health check
C5_Witness ==
    /\ IsHealth
    /\ \E s \in Slots :
        /\ Responded(s, "list") /\ req[s].status = 200
        /\ Cardinality(req[s].snap) = 2
        /\ Len(req[s].body) = 2

\* C6: a successful create returns the given name unchanged together with an
\* assigned id, and a create with the empty name is not refused: it fails
\* only when the store fails
C6_NameRoundTrips ==
    \A s \in Slots :
        Responded(s, "create") =>
            /\ req[s].status = 200 =>
                   /\ req[s].body.name = req[s].name
                   /\ req[s].body.id # NullId
            /\ req[s].name = EmptyName =>
                   \/ req[s].status = 200
                   \/ req[s].status = 500 /\ req[s].fail # "none"

\* two successful creates at once: one of the empty name, one of a name with
\* a character outside ASCII
C6_Witness ==
    \E s, u \in Slots :
        /\ Responded(s, "create") /\ req[s].status = 200
        /\ req[s].name = EmptyName /\ req[s].body.name = EmptyName
        /\ Responded(u, "create") /\ req[u].status = 200
        /\ req[u].name = Joao /\ req[u].body.name = Joao

\* C7: a successful list returns one {id, name} record for each row that was
\* committed when it read the table, in order and nothing else; a list fails
\* only when the store fails, so on an empty table it returns an empty list
C7_ListIsTable ==
    \A s \in Slots :
        Responded(s, "list") =>
            /\ req[s].status = 200 =>
                   /\ Len(req[s].body) = Len(req[s].view)
                   /\ \A i \in DOMAIN req[s].body :
                        /\ DOMAIN req[s].body[i] = {"id", "name"}
                        /\ req[s].body[i].id = req[s].view[i].id
                        /\ encode(req[s].body[i].name) = req[s].view[i].name
            /\ req[s].status # 200 => req[s].status = 500 /\ req[s].fail = "query"

\* a list that found the table empty and one that found a row
C7_Witness ==
    \E s, u \in Slots :
        /\ Responded(s, "list") /\ req[s].status = 200 /\ req[s].body = <<>>
        /\ Responded(u, "list") /\ req[u].status = 200 /\ Len(req[u].body) = 1

\* C8: a create whose write the store rejects ends in a server error after a
\* single attempt, and its row is never in the table nor in any list
C8_RejectedWriteLeavesNoRow ==
    /\ \A s \in Slots :
        Responded(s, "create") /\ req[s].fail \in {"insert", "commit"} =>
            /\ req[s].status = 500
            /\ req[s].attempts = 1
            /\ \A i \in DOMAIN table : table[i].id # req[s].rowid
    /\ \A i \in DOMAIN table : table[i].id \notin rejectedIds
    /\ \A r \in returned : r.id \notin rejectedIds
    /\ \A s \in Slots :
        Responded(s, "list") /\ req[s].status = 200 =>
            \A i \in DOMAIN req[s].body : req[s].body[i].id \notin rejectedIds

\* a create whose commit was rejected, and a list answered after it
C8_Witness ==
    /\ rejectedIds # {}
    /\ \E s, u \in Slots :
        /\ Responded(s, "create") /\ req[s].fail = "commit"
        /\ Responded(u, "list") /\ req[u].status = 200

\* C9: every request in flight holds the session of its own slot, no session
\* stays open once every request has completed, and a list never returns a
\* row that is not committed
C9_SessionsClosed ==
    /\ \A s \in Slots : req[s].pc # "idle" => s \in sessions
    /\ (\A s \in Slots : req[s].pc = "idle") => sessions = {}
    /\ \A s \in Slots :
        Responded(s, "list") /\ req[s].status = 200 =>
            Range(req[s].body) \subseteq TableRecords

\* every request has completed, one of them a create that failed at its
\* commit and one a create that succeeded
C9_Witness ==
    /\ \A s \in Slots : req[s].pc = "idle"
    /\ rejectedIds # {}
    /\ table # <<>>

\* the connection parameters and reported values that startup resolution
\* would give
StartupValue(name, default) ==
    IF environ0[name] = None THEN default ELSE environ0[name]

\* C10: whatever changes in the environment after startup, every request
\* uses and reports the values read at startup
C10_ConfigFrozenAtStartup ==
    /\ DATABASE_URL = MakeDatabaseUrl(environ0)
    /\ IsHealth =>
        /\ resp.probeParams =
               [host |-> environ0["POSTGRES_HOST"],
                database |-> environ0["POSTGRES_DB"],
                user |-> environ0["POSTGRES_USER"],
                password |-> environ0["POSTGRES_PASSWORD"]]
        /\ resp.redisParams.host = environ0["REDIS_HOST"]
    /\ resp.endpoint = "/" =>
        /\ resp.body.app_name = StartupValue("APP_NAME", "platform")
        /\ resp.body.environment = environ0["APP_ENV"]
    /\ resp.endpoint = "/version" =>
        /\ resp.body.commit = StartupValue("BUILD_SHA", "dev")
        /\ resp.body.environment = StartupValue("APP_ENV", "unknown")

=============================================================================
